---- MODULE Spec2Model ----
(***************************************************************************)
(* A model of psrcal/losses.py: the cost / proper-scoring-rule losses      *)
(* (CostFunction, LogLoss, Brier, CalLossLogLoss, CalLossBrier) and the    *)
(* expected calibration error family (ECE, ECE_v2, ECEbin, ECEbin_v2).     *)
(*                                                                         *)
(* Numbers.  A tensor element is a record [n, d]: for d > 0 the rational   *)
(* n/d in lowest terms, and for d = 0 one of the three IEEE specials       *)
(* +inf (n = 1), -inf (n = -1) and NaN (n = 0).  The arithmetic below      *)
(* follows IEEE-754 on the specials (0*inf, inf-inf, 0/0 and inf/inf are   *)
(* NaN, x/0 is an infinity for x # 0); finite values are exact, rounding   *)
(* and the sign of zero are not modelled.  torch.log and torch.exp are a   *)
(* table over the probabilities the model uses, in fixed point with three  *)
(* decimals (LnTable), with log(0) = -inf and exp(-inf) = 0.               *)
(*                                                                         *)
(* State.  The caller's arguments (log_probs, labels, priors, and the      *)
(* caller's numpy cost matrix C), the last call made and what it returned. *)
(* Every action is one call of a function of losses.py.                    *)
(***************************************************************************)
EXTENDS Integers, Sequences, FiniteSets, TLC

VARIABLES log_probs, labels, priors, C, call, result

vars == <<log_probs, labels, priors, C, call, result>>

(***************************************************************************)
(* Bounds of the model.                                                    *)
(***************************************************************************)
\* Largest number N of samples in a call.
MaxN == 2

\* Largest offset added to every entry of a caller-supplied cost matrix.
MaxCostBase == 1

\* The numbers K of classes the model draws inputs for.
Ks == {2, 3}

(***************************************************************************)
(* Floating point values.                                                  *)
(***************************************************************************)
Abs(i) == IF i < 0 THEN -i ELSE i

Sgn(i) == IF i < 0 THEN -1 ELSE IF i > 0 THEN 1 ELSE 0

RECURSIVE GCD(_, _)
GCD(a, b) == IF b = 0 THEN a ELSE GCD(b, a % b)

\* The value n/d, d possibly 0 or negative, in the canonical form.
Norm(n, d) ==
    IF d = 0 THEN [n |-> Sgn(n), d |-> 0]
    ELSE IF n = 0 THEN [n |-> 0, d |-> 1]
    ELSE LET g == GCD(Abs(n), Abs(d))
         IN  [n |-> (Sgn(d) * n) \div g, d |-> Abs(d) \div g]

Rat(n, d) == Norm(n, d)
Zero == Rat(0, 1)
One == Rat(1, 1)
PosInf == [n |-> 1, d |-> 0]
NegInf == [n |-> -1, d |-> 0]
NaN == [n |-> 0, d |-> 0]

IsNaN(x) == x.d = 0 /\ x.n = 0
IsInf(x) == x.d = 0 /\ x.n # 0
IsFin(x) == x.d > 0

Neg(x) == [n |-> -x.n, d |-> x.d]

Add(x, y) ==
    IF IsNaN(x) \/ IsNaN(y) THEN NaN
    ELSE IF IsInf(x) /\ IsInf(y) THEN (IF x.n = y.n THEN x ELSE NaN)
    ELSE IF IsInf(x) THEN x
    ELSE IF IsInf(y) THEN y
    ELSE Norm(x.n * y.d + y.n * x.d, x.d * y.d)

Sub(x, y) == Add(x, Neg(y))

Mul(x, y) ==
    IF IsNaN(x) \/ IsNaN(y) THEN NaN
    ELSE IF IsInf(x) \/ IsInf(y)
         THEN (IF x.n = 0 \/ y.n = 0 THEN NaN ELSE Norm(Sgn(x.n) * Sgn(y.n), 0))
    ELSE Norm(x.n * y.n, x.d * y.d)

Div(x, y) ==
    IF IsNaN(x) \/ IsNaN(y) THEN NaN
    ELSE IF IsInf(y) THEN (IF IsInf(x) THEN NaN ELSE Zero)
    ELSE IF y.n = 0 THEN (IF x.n = 0 THEN NaN ELSE Norm(Sgn(x.n), 0))
    ELSE IF IsInf(x) THEN Norm(Sgn(x.n) * Sgn(y.n), 0)
    ELSE Norm(x.n * y.d, x.d * y.n)

\* x < y and x <= y as IEEE compares them: false when either side is NaN.
Lt(x, y) ==
    /\ ~IsNaN(x) /\ ~IsNaN(y)
    /\ IF IsInf(x) \/ IsInf(y)
       THEN (IF IsInf(x) /\ IsInf(y) THEN x.n < y.n
             ELSE IF IsInf(x) THEN x.n < 0 ELSE y.n > 0)
       ELSE x.n * y.d < y.n * x.d

Le(x, y) == ~IsNaN(x) /\ ~IsNaN(y) /\ (x = y \/ Lt(x, y))

FAbs(x) == [n |-> Abs(x.n), d |-> x.d]

\* A tensor built element by element, held as its elements: TLC would
\* otherwise evaluate the constructor again at every index.
Vec(f) == f @@ <<>>

\* The sum and the mean of a sequence of values (torch.sum, torch.mean).
RECURSIVE SumSeq(_)
SumSeq(s) == IF s = <<>> THEN Zero ELSE Add(Head(s), SumSeq(Tail(s)))

Mean(s) == Div(SumSeq(s), Rat(Len(s), 1))

\* All the elements of a matrix, row after row.
RECURSIVE Flatten(_)
Flatten(m) == IF m = <<>> THEN <<>> ELSE Head(m) \o Flatten(Tail(m))

(***************************************************************************)
(* torch.log and torch.exp on the probabilities of the model.              *)
(***************************************************************************)
\* <<p.n, p.d, 1000 * ln(p)>> for the probabilities k/n, n <= 6.
LnTable ==
    { <<1, 1, 0>>, <<5, 6, -182>>, <<4, 5, -223>>, <<3, 4, -288>>,
      <<2, 3, -405>>, <<3, 5, -511>>, <<1, 2, -693>>, <<2, 5, -916>>,
      <<1, 3, -1099>>, <<1, 4, -1386>>, <<1, 5, -1609>>, <<1, 6, -1792>> }

Log(p) ==
    IF p = Zero THEN NegInf
    ELSE IF IsNaN(p) THEN NaN
    ELSE LET e == CHOOSE t \in LnTable : t[1] = p.n /\ t[2] = p.d
         IN  Rat(e[3], 1000)

Exp(x) ==
    IF x = NegInf THEN Zero
    ELSE IF IsNaN(x) THEN NaN
    ELSE LET e == CHOOSE t \in LnTable : t[3] * x.d = x.n * 1000
         IN  Rat(e[1], e[2])

LogRow(r) == Vec([k \in 1..Len(r) |-> Log(r[k])])
ExpRow(r) == Vec([k \in 1..Len(r) |-> Exp(r[k])])

(***************************************************************************)
(* Python values in argument position: None, a bool, or a tensor.          *)
(***************************************************************************)
PyNone == [kind |-> "none", b |-> FALSE, v |-> <<>>]
PyBool(x) == [kind |-> "bool", b |-> x, v |-> <<>>]
Tensor(x) == [kind |-> "tensor", b |-> FALSE, v |-> x]

\* `if x`: bool() of a tensor that does not hold exactly one element raises.
TruthRaises(x) == x.kind = "tensor" /\ Len(x.v) # 1

Truth(x) ==
    CASE x.kind = "bool" -> x.b
      [] x.kind = "none" -> FALSE
      [] OTHER -> x.v[1] # Zero

\* What a call returns: a value, or an exception (err).
Ok(x) == [err |-> FALSE, val |-> x]
Raise == [err |-> TRUE, val |-> NaN]

(***************************************************************************)
(* _get_priors_and_weights.  Class k is element k+1 of a sequence.         *)
(***************************************************************************)
MaxLabel(lab) ==
    CHOOSE m \in {lab[i] : i \in 1..Len(lab)} : \A i \in 1..Len(lab) : lab[i] <= m

\* torch.bincount(labels): one count per class 0..max(labels), no more.
bincount(lab) ==
    Vec([k \in 1..(MaxLabel(lab) + 1) |->
            Cardinality({i \in 1..Len(lab) : lab[i] = k - 1})])

\* torch.bincount(labels)/float(labels.shape[0])
data_priors(lab) ==
    LET cnt == bincount(lab)
    IN  Vec([k \in 1..Len(cnt) |-> Div(Rat(cnt[k], 1), Rat(Len(lab), 1))])

\* weights is the 0-dim tensor(1.0) (scalar) or one weight per sample.
GetPriorsAndWeights(lab, pri) ==
    LET dp == data_priors(lab)
    IN  IF pri.kind = "none"
        THEN [priors |-> dp, weights |-> [scalar |-> TRUE, v |-> <<One>>]]
        ELSE [priors |-> pri.v,
              weights |-> [scalar |-> FALSE,
                           v |-> Vec([i \in 1..Len(lab) |->
                                    Div(pri.v[lab[i] + 1], dp[lab[i] + 1])])]]

\* Broadcasting of the weights against the N samples.
WeightOf(w, i) == IF w.scalar THEN w.v[1] ELSE w.v[i]

\* priors.expand(N, -1), then torch.log
LogPriorRows(pri, N) == LET row == LogRow(pri) IN Vec([i \in 1..N |-> row])

(***************************************************************************)
(* LogLoss                                                                 *)
(***************************************************************************)
\* A faulty variant of Losses: the sign lost, losses = log_probs[ii, labels].
LossesUnsigned(lp, lab) == Vec([i \in 1..Len(lab) |-> lp[i][lab[i] + 1]])

\* losses = -log_probs[ii, labels]
Losses(lp, lab) == Vec([i \in 1..Len(lab) |-> Neg(lp[i][lab[i] + 1])])

\* A faulty variant of WLosses: the masking `wlosses[weights==0] = 0` left out.
WLossesUnmasked(w, losses) ==
    Vec([i \in 1..Len(losses) |-> Mul(WeightOf(w, i), losses[i])])

\* wlosses = weights*losses; wlosses[weights==0] = 0
WLosses(w, losses) ==
    LET wl == Vec([i \in 1..Len(losses) |-> Mul(WeightOf(w, i), losses[i])])
    IN  Vec([i \in 1..Len(losses) |->
                IF WeightOf(w, i) = Zero THEN Zero ELSE wl[i]])

RECURSIVE LogLoss(_, _, _, _)
LogLoss(lp, lab, norm, pri) ==
    LET pw == GetPriorsAndWeights(lab, pri)
    IN  IF TruthRaises(norm) THEN Raise
        ELSE LET norm_factor ==
                     IF Truth(norm)
                     THEN LogLoss(LogPriorRows(pw.priors, Len(lp)), lab,
                                  PyBool(FALSE), Tensor(pw.priors)).val
                     ELSE One
                 score == Mean(WLosses(pw.weights, Losses(lp, lab)))
             IN  Ok(Div(score, norm_factor))

(***************************************************************************)
(* Brier                                                                   *)
(***************************************************************************)
\* utils.onehot_encode(labels, n_classes)
onehot_encode(lab, n_classes) ==
    Vec([i \in 1..Len(lab) |->
        Vec([k \in 1..n_classes |-> IF k = lab[i] + 1 THEN One ELSE Zero])])

\* losses = (labels_onehot-probs)**2
SqErr(onehot, probs) ==
    Vec([i \in 1..Len(probs) |->
        Vec([k \in 1..Len(probs[i]) |->
            LET e == Sub(onehot[i][k], probs[i][k]) IN Mul(e, e)])])

\* torch.atleast_2d(weights).T*losses
Weighted(w, losses) ==
    Vec([i \in 1..Len(losses) |->
        Vec([k \in 1..Len(losses[i]) |-> Mul(WeightOf(w, i), losses[i][k])])])

RECURSIVE Brier(_, _, _, _)
Brier(lp, lab, norm, pri) ==
    LET pw == GetPriorsAndWeights(lab, pri)
    IN  IF TruthRaises(norm) THEN Raise
        ELSE LET norm_factor ==
                     IF Truth(norm)
                     THEN Brier(LogPriorRows(pw.priors, Len(lp)), lab,
                                PyBool(FALSE), Tensor(pw.priors)).val
                     ELSE One
                 probs == Vec([i \in 1..Len(lp) |-> ExpRow(lp[i])])
                 labels_onehot == onehot_encode(lab, Len(probs[1]))
                 losses == SqErr(labels_onehot, probs)
                 score == Mean(Flatten(Weighted(pw.weights, losses)))
             IN  Ok(Div(score, norm_factor))

(***************************************************************************)
(* CostFunction                                                            *)
(***************************************************************************)
\* 1 - np.eye(K), the 0-1 cost matrix
EyeCost(K) ==
    Vec([i \in 1..K |-> Vec([j \in 1..K |-> IF i = j THEN Zero ELSE One])])

\* C.min(axis=0)[j]: the smallest entry of column j
ColMin(m, j) ==
    LET col == {m[i][j] : i \in 1..Len(m)}
    IN  CHOOSE x \in col : \A y \in col : Le(x, y)

\* C -= C.min(axis=0)
NormalizeCost(m) ==
    LET mins == Vec([j \in 1..Len(m[1]) |-> ColMin(m, j)])
    IN  Vec([i \in 1..Len(m) |->
            Vec([j \in 1..Len(m[i]) |-> Sub(m[i][j], mins[j])])])

\* A faulty variant of ArgMinFirst: the last of the smallest entries.
ArgMinLast(s) ==
    CHOOSE i \in 1..Len(s) :
        /\ \A j \in 1..Len(s) : Le(s[i], s[j])
        /\ \A j \in (i + 1)..Len(s) : s[j] # s[i]

\* argmin: the index (from 1) of the first of the smallest entries.
ArgMinFirst(s) ==
    CHOOSE i \in 1..Len(s) :
        /\ \A j \in 1..Len(s) : Le(s[i], s[j])
        /\ \A j \in 1..(i - 1) : s[j] # s[i]

\* (p @ C.T)[i], the expected cost of deciding class i - 1
ExpectedCosts(p, m) ==
    Vec([i \in 1..Len(m) |->
        SumSeq(Vec([j \in 1..Len(p) |-> Mul(p[j], m[i][j])]))])

\* _decisions(p) for one row p; the matrix product needs len(p) = K.
Decisions(p, m) == ArgMinFirst(ExpectedCosts(p, m))

\* The lines after the normalisation, m the normalised cost tensor.
CostOf(lp, lab, m, norm) ==
    LET N == Len(lp)
        costs == Vec([i \in 1..N |->
                    m[Decisions(ExpRow(lp[i]), m)][lab[i] + 1]])
        pri == data_priors(lab)
    IN  IF ~norm THEN Ok(Div(Mean(costs), One))
        ELSE IF Len(pri) # Len(m) THEN Raise
        ELSE LET naive == Decisions(pri, m)
                 naive_costs == Vec([i \in 1..N |-> m[naive][lab[i] + 1]])
             IN  Ok(Div(Mean(costs), Mean(naive_costs)))

\* The caller's C (None or a numpy array), the value returned, and the
\* caller's array after the call: `C -= ...` writes into the array passed.
CostFunction(lp, lab, Carg, norm) ==
    LET m == NormalizeCost(IF Carg.kind = "none" THEN EyeCost(Len(lp[1]))
                           ELSE Carg.v)
        r == CostOf(lp, lab, m, norm)
    IN  [err |-> r.err, val |-> r.val,
         C |-> IF Carg.kind = "none" THEN PyNone ELSE Tensor(m)]

(***************************************************************************)
(* CalLossLogLoss, CalLossBrier                                            *)
(***************************************************************************)
\* A faulty variant of RelativeGain: the parentheses lost, raw-cal/raw*100.
RelativeGainNoParens(raw, cal) ==
    IF raw.err \/ cal.err THEN Raise
    ELSE Ok(Sub(raw.val, Mul(Div(cal.val, raw.val), Rat(100, 1))))

\* (raw-cal)/raw*100
RelativeGain(raw, cal) ==
    IF raw.err \/ cal.err THEN Raise
    ELSE Ok(Mul(Div(Sub(raw.val, cal.val), raw.val), Rat(100, 1)))

\* The fourth argument is handed on in the third position, which is norm.
CalLossLogLoss(lp, cal_lp, targets, pri) ==
    RelativeGain(LogLoss(lp, targets, pri, PyNone),
                 LogLoss(cal_lp, targets, pri, PyNone))

CalLossBrier(lp, cal_lp, targets, pri) ==
    RelativeGain(Brier(lp, targets, pri, PyNone),
                 Brier(cal_lp, targets, pri, PyNone))

(***************************************************************************)
(* ECE, ECEbin: the binning of np.linspace(0, 1, num=M+1).                 *)
(***************************************************************************)
\* The default of the parameter M of ECE, ECE_v2, ECEbin and ECEbin_v2.
DefaultM == 15

\* A faulty variant of InBin: a bin closed at both ends, low <= score <= high.
InBinClosed(score, M, b) ==
    Le(Rat(b - 1, M), score) /\ Le(score, Rat(b, M))

\* ix = (low < score) & (score <= high) for bin b of M, b from 1
InBin(score, M, b) ==
    Lt(Rat(b - 1, M), score) /\ Le(score, Rat(b, M))

\* The samples of bin b.
BinMembers(scores, M, b) ==
    {i \in 1..Len(scores) : InBin(scores[i], M, b)}

\* torch.mean of the entries of s at the indices ix.
MeanOver(s, ix) ==
    Div(SumSeq(Vec([i \in 1..Len(s) |-> IF i \in ix THEN s[i] ELSE Zero])),
        Rat(Cardinality(ix), 1))

\* The loop over the bins: what bin b adds to ece, given the scores and
\* the 0/1 outcome of every sample; an empty bin is skipped.
BinTerm(scores, outcomes, M, b, l2norm) ==
    LET ix == BinMembers(scores, M, b)
        n == Cardinality(ix)
    IN  IF n = 0 THEN Zero
        ELSE LET gap == Sub(MeanOver(scores, ix), MeanOver(outcomes, ix))
             IN  Mul(Rat(n, 1), IF l2norm THEN Mul(gap, gap) ELSE FAbs(gap))

\* counts: the number of samples of every bin that is not empty.
BinCounts(scores, M) ==
    LET all == Vec([b \in 1..M |-> Cardinality(BinMembers(scores, M, b))])
    IN  SelectSeq(all, LAMBDA n : n # 0)

\* ece * 100/N, with the counts of return_values=True
Binned(scores, outcomes, M, l2norm) ==
    LET ece == SumSeq(Vec([b \in 1..M |->
                   BinTerm(scores, outcomes, M, b, l2norm)]))
    IN  [err |-> FALSE,
         val |-> Div(Mul(ece, Rat(100, 1)), Rat(Len(scores), 1)),
         counts |-> BinCounts(scores, M)]

\* The largest entry of a row and the first index (from 1) that holds it:
\* torch.max(x, axis=1).
MaxIndex(r) ==
    CHOOSE k \in 1..Len(r) :
        /\ \A j \in 1..Len(r) : Le(r[j], r[k])
        /\ \A j \in 1..(k - 1) : r[j] # r[k]

\* (preds == target) as 0.0 / 1.0
Correct(rows, target) ==
    Vec([i \in 1..Len(rows) |->
            IF MaxIndex(rows[i]) - 1 = target[i] THEN One ELSE Zero])

ECE(lp, target, M) ==
    LET probs == Vec([i \in 1..Len(lp) |-> ExpRow(lp[i])])
        confs == Vec([i \in 1..Len(lp) |-> probs[i][MaxIndex(probs[i])]])
    IN  Binned(confs, Correct(probs, target), M, FALSE)

ECEbin(lp, target, M, l2norm) ==
    IF Len(lp[1]) # 2 THEN [err |-> TRUE, val |-> NaN, counts |-> <<>>]
    ELSE LET post2 == Vec([i \in 1..Len(lp) |-> Exp(lp[i][2])])
             tgt == Vec([i \in 1..Len(lp) |-> Rat(target[i], 1)])
         IN  Binned(post2, tgt, M, l2norm)

(***************************************************************************)
(* psrcal.calibration, which losses.py imports, after its documented       *)
(* contract.  Histogram binning trained and evaluated on the same          *)
(* log-scores: a sample gets the log of the frequency of the target in its *)
(* bin as calibrated score and the mean score of its bin as binned score   *)
(* (params[0]); the bins are those above; a sample in no bin gets 0 for    *)
(* both.  calibrate() is called without a number of bins, so the           *)
(* calibrator uses its own.                                                *)
(***************************************************************************)
\* The number of bins of HistogramBinningCal when none is passed.
CalibratorM == 15

HistogramBinning(log_scores, target) ==
    LET N == Len(log_scores)
        scores == Vec([i \in 1..N |-> Exp(log_scores[i])])
        bin == Vec([i \in 1..N |->
                   IF \E b \in 1..CalibratorM : InBin(scores[i], CalibratorM, b)
                   THEN CHOOSE b \in 1..CalibratorM :
                            InBin(scores[i], CalibratorM, b)
                   ELSE 0])
    IN  [cal |-> Vec([i \in 1..N |->
                    IF bin[i] = 0 THEN NegInf
                    ELSE Log(MeanOver(target,
                             BinMembers(scores, CalibratorM, bin[i])))]),
         binned |-> Vec([i \in 1..N |->
                    IF bin[i] = 0 THEN Zero
                    ELSE MeanOver(scores,
                             BinMembers(scores, CalibratorM, bin[i]))])]

\* torch.mean(torch.abs(probs2_cal-probs2_binned)) * 100
CalibrationGap(hb) ==
    LET probs2_cal == ExpRow(hb.cal)
    IN  Mul(Mean(Vec([i \in 1..Len(probs2_cal) |->
                FAbs(Sub(probs2_cal[i], hb.binned[i]))])), Rat(100, 1))

\* The parameter M is not used.
ECE_v2(lp, target, M) ==
    LET log_confs == Vec([i \in 1..Len(lp) |-> lp[i][MaxIndex(lp[i])]])
    IN  [err |-> FALSE,
         val |-> CalibrationGap(HistogramBinning(log_confs, Correct(lp, target))),
         counts |-> <<>>]

\* The parameter M is not used, and there is no l2norm.
ECEbin_v2(lp, target, M) ==
    IF Len(lp[1]) # 2 THEN [err |-> TRUE, val |-> NaN, counts |-> <<>>]
    ELSE LET log_probs2 == Vec([i \in 1..Len(lp) |-> lp[i][2]])
             tgt == Vec([i \in 1..Len(lp) |-> Rat(target[i], 1)])
         IN  [err |-> FALSE,
              val |-> CalibrationGap(HistogramBinning(log_probs2, tgt)),
              counts |-> <<>>]

(***************************************************************************)
(* The inputs the model draws.                                             *)
(***************************************************************************)
Q(n, d) == Rat(n, d)

\* Rows of class probabilities, K = 2 and K = 3.
ProbRows(K) ==
    IF K = 2
    THEN << <<One, Zero>>, <<Zero, One>>, <<Q(1, 2), Q(1, 2)>>,
            <<Q(1, 3), Q(2, 3)>>, <<Q(2, 3), Q(1, 3)>>, <<Q(3, 4), Q(1, 4)>> >>
    ELSE << <<One, Zero, Zero>>, <<Zero, Zero, One>>,
            <<Q(1, 2), Q(1, 2), Zero>>, <<Zero, Q(1, 2), Q(1, 2)>>,
            <<Q(1, 3), Q(1, 3), Q(1, 3)>>, <<Q(1, 2), Q(1, 4), Q(1, 4)>> >>

\* Sample number c of K classes: a row of log-probabilities and its label.
SampleRow(K, c) == LogRow(ProbRows(K)[((c - 1) \div K) + 1])
SampleLabel(K, c) == (c - 1) % K

\* External priors, among them one with no mass on the last class.
ExtPriors(K) ==
    IF K = 2
    THEN { <<One, Zero>>, <<Q(3, 4), Q(1, 4)>> }
    ELSE { <<Q(1, 2), Q(1, 2), Zero>>, <<Q(1, 2), Q(1, 4), Q(1, 4)>> }

\* Caller-supplied cost matrices: deciding i when the truth is j costs
\* base on the diagonal and base + j off it.
CostMats(K) ==
    { [i \in 1..K |-> [j \in 1..K |->
          IF i = j THEN Rat(base, 1) ELSE Rat(base + j, 1)]] :
      base \in 0..MaxCostBase }

NoCall == [op |-> "none", norm |-> FALSE, M |-> 0, l2norm |-> FALSE,
           cal |-> "none"]
NoResult == [err |-> FALSE, val |-> Zero, counts |-> <<>>]

Returned(r) == [err |-> r.err, val |-> r.val, counts |-> <<>>]

\* The samples of a call are drawn in one order of each multiset: every
\* function here averages over the samples, none depends on their order.
SampleSeqs(K, N) ==
    {q \in [1..N -> 1..(Len(ProbRows(K)) * K)] :
        \A i \in 1..(N - 1) : q[i] <= q[i + 1]}

InitInputs ==
    \E K \in Ks, N \in 1..MaxN :
        \E q \in SampleSeqs(K, N) :
            /\ log_probs = [i \in 1..N |-> SampleRow(K, q[i])]
            /\ labels = [i \in 1..N |-> SampleLabel(K, q[i])]
            /\ \/ priors = PyNone /\ C = PyNone
               \/ priors \in {Tensor(p) : p \in ExtPriors(K)} /\ C = PyNone
               \/ priors = PyNone /\ C \in {Tensor(m) : m \in CostMats(K)}

Init ==
    /\ InitInputs
    /\ call = NoCall
    /\ result = NoResult

(***************************************************************************)
(* The caller is sequential: it makes a call, holds what the call returned *)
(* and then goes on (Resume) to its next call with the same arrays.        *)
(***************************************************************************)
Idle == call.op = "none"

Resume ==
    /\ ~Idle
    /\ call' = NoCall
    /\ result' = NoResult
    /\ UNCHANGED <<log_probs, labels, priors, C>>

(***************************************************************************)
(* The calls of the loss functions.                                        *)
(***************************************************************************)
CallLogLoss ==
    \E norm \in BOOLEAN :
        /\ Idle
        /\ call' = [NoCall EXCEPT !.op = "LogLoss", !.norm = norm]
        /\ result' = Returned(LogLoss(log_probs, labels, PyBool(norm), priors))
        /\ UNCHANGED <<log_probs, labels, priors, C>>

CallBrier ==
    \E norm \in BOOLEAN :
        /\ Idle
        /\ call' = [NoCall EXCEPT !.op = "Brier", !.norm = norm]
        /\ result' = Returned(Brier(log_probs, labels, PyBool(norm), priors))
        /\ UNCHANGED <<log_probs, labels, priors, C>>

CallCostFunction ==
    \E norm \in BOOLEAN :
        LET r == CostFunction(log_probs, labels, C, norm)
        IN  /\ Idle
            /\ call' = [NoCall EXCEPT !.op = "CostFunction", !.norm = norm]
            /\ result' = Returned(r)
            /\ C' = r.C
            /\ UNCHANGED <<log_probs, labels, priors>>

\* The calibrated log-probabilities of a CalLoss call: the same matrix, or
\* every row replaced by the log of the empirical class frequencies.
EmpiricalPrior(lab, K) ==
    [k \in 1..K |->
        Rat(Cardinality({i \in 1..Len(lab) : lab[i] = k - 1}), Len(lab))]

CalLogProbs(kind) ==
    IF kind = "same" THEN log_probs
    ELSE LogPriorRows(EmpiricalPrior(labels, Len(log_probs[1])), Len(log_probs))

CallCalLossLogLoss ==
    \E kind \in {"same", "prior"} :
        /\ Idle
        /\ call' = [NoCall EXCEPT !.op = "CalLossLogLoss", !.cal = kind]
        /\ result' = Returned(CalLossLogLoss(log_probs, CalLogProbs(kind),
                                             labels, priors))
        /\ UNCHANGED <<log_probs, labels, priors, C>>

CallCalLossBrier ==
    \E kind \in {"same", "prior"} :
        /\ Idle
        /\ call' = [NoCall EXCEPT !.op = "CalLossBrier", !.cal = kind]
        /\ result' = Returned(CalLossBrier(log_probs, CalLogProbs(kind),
                                           labels, priors))
        /\ UNCHANGED <<log_probs, labels, priors, C>>

Next ==
    \/ CallLogLoss
    \/ CallBrier
    \/ CallCostFunction
    \/ CallCalLossLogLoss
    \/ CallCalLossBrier
    \/ Resume

Spec == Init /\ [][Next]_vars

(***************************************************************************)
(* Properties of the losses.                                               *)
(***************************************************************************)
NumSamples == Len(labels)
NumClasses == Len(log_probs[1])

NonNegative(x) == ~IsNaN(x) /\ x.n >= 0

\* The weights _get_priors_and_weights gives the samples, one each.
SampleWeights ==
    LET w == GetPriorsAndWeights(labels, priors).weights
    IN  Vec([i \in 1..NumSamples |-> WeightOf(w, i)])

ZeroWeightSamples ==
    LET w == SampleWeights IN {i \in 1..NumSamples : w[i] = Zero}

\* C1: with entries of log_probs <= 0, a non-negative cost matrix and a
\* non-negative external prior, LogLoss, Brier and CostFunction called with
\* norm=False return a value >= 0: never a negative one, never NaN.
C1_LossesNonNegative ==
    (call.op \in {"LogLoss", "Brier", "CostFunction"} /\ ~call.norm)
        => (~result.err /\ NonNegative(result.val))

\* A LogLoss call with an external prior, a zero-weight sample and a
\* sample of infinite loss, which returned +inf.
C1_Witness ==
    /\ call.op = "LogLoss" /\ ~call.norm /\ priors.kind = "tensor"
    /\ ZeroWeightSamples # {}
    /\ result = Returned(Ok(PosInf))

\* The classifier outputs the prior pri on every sample.
OutputsPrior(pri) ==
    \A i \in 1..NumSamples : log_probs[i] = LogRow(pri)

\* The prior LogLoss and Brier reweight to.
PriorUsed ==
    IF priors.kind = "none" THEN EmpiricalPrior(labels, NumClasses)
    ELSE priors.v

\* C2: when every row of log_probs is the log of the prior used (the
\* empirical prior, or the external one when given), LogLoss, Brier and
\* CostFunction with norm=True return exactly 1.0, for every label vector.
C2_NormalizedPriorIsOne ==
    /\ (call.op \in {"LogLoss", "Brier"} /\ call.norm /\ OutputsPrior(PriorUsed))
           => result = Returned(Ok(One))
    /\ (/\ call.op = "CostFunction" /\ call.norm
        /\ OutputsPrior(EmpiricalPrior(labels, NumClasses)))
           => result = Returned(Ok(One))

\* log_probs with the rows of the samples zw replaced by row r.
WithRows(zw, r) ==
    Vec([i \in 1..NumSamples |-> IF i \in zw THEN r ELSE log_probs[i]])

\* The mean over all N samples of the weighted losses (weights w), the
\* term of every sample in zw taken as 0.
LogLossZeroed(w, zw) ==
    Div(SumSeq(Vec([i \in 1..NumSamples |->
            IF i \in zw THEN Zero
            ELSE Mul(w[i], Neg(log_probs[i][labels[i] + 1]))])),
        Rat(NumSamples, 1))

BrierZeroed(w, zw) ==
    Div(SumSeq(Vec([i \in 1..NumSamples |->
            IF i \in zw THEN Zero
            ELSE SumSeq(Vec([k \in 1..NumClasses |->
                     LET p == Exp(log_probs[i][k])
                         e == IF k = labels[i] + 1 THEN Sub(One, p) ELSE p
                     IN  Mul(w[i], Mul(e, e))]))])),
        Rat(NumSamples * NumClasses, 1))

\* The same call on other log-probabilities.
SameCallOn(lp) ==
    Returned(IF call.op = "LogLoss"
             THEN LogLoss(lp, labels, PyBool(call.norm), priors)
             ELSE Brier(lp, labels, PyBool(call.norm), priors))

C6_PriorReachesLoss ==
    /\ (call.op = "CalLossLogLoss" /\ priors.kind = "tensor") =>
           \E norm \in BOOLEAN :
               result = Returned(RelativeGain(
                   LogLoss(log_probs, labels, PyBool(norm), priors),
                   LogLoss(CalLogProbs(call.cal), labels, PyBool(norm), priors)))
    /\ (call.op = "CalLossBrier" /\ priors.kind = "tensor") =>
           \E norm \in BOOLEAN :
               result = Returned(RelativeGain(
                   Brier(log_probs, labels, PyBool(norm), priors),
                   Brier(CalLogProbs(call.cal), labels, PyBool(norm), priors)))

\* A call CalLossLogLoss(log_probs, log_probs, labels), no prior given.
SelfComparison ==
    call.op = "CalLossLogLoss" /\ call.cal = "same" /\ priors.kind = "none"

\* The mean over the samples of -log p(true class).
TrueClassLoss ==
    Div(SumSeq(Vec([i \in 1..NumSamples |->
            Neg(log_probs[i][labels[i] + 1])])), Rat(NumSamples, 1))

\* C7 as stated: CalLossLogLoss(log_probs, log_probs, labels) returns
\* exactly 0 for every input, a perfect classifier (loss 0) included.
C7_SelfComparisonIsZero ==
    SelfComparison => result = Returned(Ok(Zero))

\* C7 amended: it returns exactly 0 when the loss on the true classes is
\* finite and not 0, and NaN when that loss is 0 or infinite.
C7_SelfComparisonAmended ==
    SelfComparison =>
        IF IsFin(TrueClassLoss) /\ TrueClassLoss # Zero
        THEN result = Returned(Ok(Zero))
        ELSE result = Returned(Ok(NaN))

\* A self-comparison of a classifier of finite, positive loss returned 0.
C7_Witness ==
    /\ SelfComparison
    /\ IsFin(TrueClassLoss) /\ TrueClassLoss # Zero
    /\ result = Returned(Ok(Zero))

\* The first class of highest probability of a row (from 1).
ArgMaxFirst(p) ==
    CHOOSE k \in 1..Len(p) :
        /\ \A j \in 1..Len(p) : Le(p[j], p[k])
        /\ \A j \in 1..(k - 1) : Lt(p[j], p[k])

\* The fraction of the samples whose first most probable class is not
\* their label.
ErrorRate ==
    Rat(Cardinality({i \in 1..NumSamples :
            ArgMaxFirst(ExpRow(log_probs[i])) # labels[i] + 1}), NumSamples)

\* C8: CostFunction with no cost matrix and norm=False returns the 0/1
\* error rate, the highest-probability class taken first on ties.
C8_DefaultCostIsErrorRate ==
    (call.op = "CostFunction" /\ C.kind = "none" /\ ~call.norm)
        => result = Returned(Ok(ErrorRate))

\* Such a call on samples that include a tie between the two most probable
\* classes, with some but not all samples misclassified.
C8_Witness ==
    /\ call.op = "CostFunction" /\ C.kind = "none" /\ ~call.norm
    /\ \E i \in 1..NumSamples :
           LET p == ExpRow(log_probs[i]) IN p[1] = p[2] /\ p[1] = Rat(1, 2)
    /\ result = Returned(Ok(Rat(1, 2)))

\* C9: CostFunction leaves the caller's cost matrix as it was.
C9_CostMatrixUnchanged == [][C' = C]_vars

(***************************************************************************)
(* The calls of the calibration errors, in a specification of their own.   *)
(***************************************************************************)
\* The numbers of bins the calls are made with.
Ms == {5, 10, DefaultM}

CallECE ==
    \E M \in Ms :
        /\ Idle
        /\ call' = [NoCall EXCEPT !.op = "ECE", !.M = M]
        /\ result' = ECE(log_probs, labels, M)
        /\ UNCHANGED <<log_probs, labels, priors, C>>

CallECE_v2 ==
    \E M \in Ms :
        /\ Idle
        /\ call' = [NoCall EXCEPT !.op = "ECE_v2", !.M = M]
        /\ result' = ECE_v2(log_probs, labels, M)
        /\ UNCHANGED <<log_probs, labels, priors, C>>

CallECEbin ==
    \E M \in Ms, l2norm \in BOOLEAN :
        /\ Idle
        /\ call' = [NoCall EXCEPT !.op = "ECEbin", !.M = M, !.l2norm = l2norm]
        /\ result' = ECEbin(log_probs, labels, M, l2norm)
        /\ UNCHANGED <<log_probs, labels, priors, C>>

CallECEbin_v2 ==
    \E M \in Ms :
        /\ Idle
        /\ call' = [NoCall EXCEPT !.op = "ECEbin_v2", !.M = M]
        /\ result' = ECEbin_v2(log_probs, labels, M)
        /\ UNCHANGED <<log_probs, labels, priors, C>>

InitECE ==
    /\ InitInputs
    /\ priors = PyNone
    /\ C = PyNone
    /\ call = NoCall
    /\ result = NoResult

NextECE ==
    \/ CallECE
    \/ CallECE_v2
    \/ CallECEbin
    \/ CallECEbin_v2
    \/ Resume

SpecECE == InitECE /\ [][NextECE]_vars

(***************************************************************************)
(* Properties of the calibration errors.                                   *)
(***************************************************************************)
\* |x - y| <= 1e-6
Close(x, y) ==
    \/ x = y
    \/ /\ IsFin(x) /\ IsFin(y)
       /\ LET gap == FAbs(Sub(x, y)) IN gap.n <= gap.d \div 1000000

\* C3: for every input with K >= 2 and every M in {5, 10, 15},
\* ECE(log_probs, labels, M) and ECE_v2(log_probs, labels, M) agree within
\* 1e-6.
C3_ECEv2AgreesWithECE ==
    call.op = "ECE_v2" =>
        /\ ~result.err
        /\ Close(result.val, ECE(log_probs, labels, call.M).val)

\* C4: for every input with K = 2, at the default number of bins,
\* ECEbin_v2 returns the value of ECEbin both for the absolute deviation
\* (l2norm=False) and for the squared one (l2norm=True).
C4_ECEbinv2AgreesWithECEbin ==
    (call.op = "ECEbin_v2" /\ NumClasses = 2 /\ call.M = DefaultM) =>
        /\ ~result.err
        /\ \A l2norm \in BOOLEAN :
               Close(result.val,
                     ECEbin(log_probs, labels, call.M, l2norm).val)

\* The score ECE (the largest probability of the row) or ECEbin (the
\* probability of class 1) bins for sample i.
Score(i) ==
    LET p == ExpRow(log_probs[i])
    IN  IF call.op = "ECE" THEN p[MaxIndex(p)] ELSE p[2]

RECURSIVE SumNat(_)
SumNat(s) == IF s = <<>> THEN 0 ELSE Head(s) + SumNat(Tail(s))

\* The bins of the call that hold sample i.
BinsOf(i) ==
    {b \in 1..call.M :
        Lt(Rat(b - 1, call.M), Score(i)) /\ Le(Score(i), Rat(b, call.M))}

BinnedCall == call.op \in {"ECE", "ECEbin"} /\ ~result.err

\* C10 as stated: in ECE and ECEbin every sample falls in exactly one of
\* the M bins and the counts returned sum to N, a class-1 probability of
\* exactly 0 in ECEbin included.
C10_EverySampleInOneBin ==
    BinnedCall =>
        /\ \A i \in 1..NumSamples : Cardinality(BinsOf(i)) = 1
        /\ SumNat(result.counts) = NumSamples

\* C10 amended: every sample of score in (0, 1] falls in exactly one bin,
\* a sample of score exactly 0 falls in none, and the counts returned sum
\* to N less the number of samples of score 0.
C10_EveryPositiveScoreInOneBin ==
    BinnedCall =>
        /\ \A i \in 1..NumSamples :
               Cardinality(BinsOf(i)) = IF Score(i) = Zero THEN 0 ELSE 1
        /\ SumNat(result.counts) =
               NumSamples
               - Cardinality({i \in 1..NumSamples : Score(i) = Zero})

\* An ECEbin call with a sample of class-1 probability 0 and a sample on a
\* bin boundary, whose counts sum to N - 1.
C10_Witness ==
    /\ call.op = "ECEbin" /\ ~result.err
    /\ \E i \in 1..NumSamples : Score(i) = Zero
    /\ \E i \in 1..NumSamples : Score(i) = Rat(2, 3) /\ call.M = 15
    /\ SumNat(result.counts) = NumSamples - 1

====
